---- MODULE Spec2Model ----
(***************************************************************************)
(* A model of src/main.py of web-file-downloader: the sequential pipeline  *)
(* main() drives (load history, fetch each target page, extract links,     *)
(* download, organize, record, persist history) and the pure functions it  *)
(* is built from.                                                          *)
(*                                                                         *)
(* Strings are sequences of one-character strings, so that lower(),        *)
(* endswith(), basename() and splitext() are computed character by         *)
(* character.  The scheme and authority of a URL are one opaque token,     *)
(* Origin: nothing in the program looks inside them.                       *)
(***************************************************************************)
EXTENDS Integers, Sequences, FiniteSets, TLC

\* ------------------------------------------------------------------------
\* Bounds of the model (not program constants)
\* ------------------------------------------------------------------------

\* Number of successive runs of main() explored.
MaxRuns == 2

\* Number of environment failures (network, disk) injected in one behaviour.
MaxFaults == 2

\* Number of hrefs of the page markup drawn for find_download_links.
MaxHrefs == 3

\* ------------------------------------------------------------------------
\* Strings
\* ------------------------------------------------------------------------

\* None, and any other falsy path: a download or organize that returns no path
NoPath == <<>>

Origin == "http://h"

\* str.lower() on one character
LowerChar(c) ==
    CASE c = "X" -> "x"
      [] c = "P" -> "p"
      [] c = "D" -> "d"
      [] c = "F" -> "f"
      [] OTHER -> c

\* str.upper() on one character
UpperChar(c) ==
    CASE c = "x" -> "X"
      [] c = "p" -> "P"
      [] c = "d" -> "D"
      [] c = "f" -> "F"
      [] c = "t" -> "T"
      [] c = "n" -> "N"
      [] c = "a" -> "A"
      [] c = "b" -> "B"
      [] c = "q" -> "Q"
      [] c = "c" -> "C"
      [] OTHER -> c

\* str.lower()
Lower(s) == [i \in 1..Len(s) |-> LowerChar(s[i])]

\* str.capitalize(): first character upper-cased, the rest lower-cased
Capitalize(s) ==
    [i \in 1..Len(s) |-> IF i = 1 THEN UpperChar(s[i]) ELSE LowerChar(s[i])]

\* str.endswith(suffix)
EndsWith(s, suffix) ==
    /\ Len(suffix) <= Len(s)
    /\ SubSeq(s, Len(s) - Len(suffix) + 1, Len(s)) = suffix

\* str.rfind(c), 1-based; 0 when c does not occur
RFind(s, c) ==
    LET hits == {i \in 1..Len(s) : s[i] = c}
    IN  IF hits = {} THEN 0 ELSE CHOOSE i \in hits : \A j \in hits : j <= i

\* str.find(c), 1-based; 0 when c does not occur
Find(s, c) ==
    LET hits == {i \in 1..Len(s) : s[i] = c}
    IN  IF hits = {} THEN 0 ELSE CHOOSE i \in hits : \A j \in hits : i <= j

\* str.replace(c, '')
RECURSIVE Remove(_, _)
Remove(s, c) ==
    IF s = <<>> THEN <<>>
    ELSE IF Head(s) = c THEN Remove(Tail(s), c)
    ELSE <<Head(s)>> \o Remove(Tail(s), c)

\* urlparse(url).path: what follows the scheme and authority, up to the query
UrlPath(url) ==
    LET rest == IF url # <<>> /\ Head(url) = Origin THEN Tail(url) ELSE url
        q    == Find(rest, "?")
    IN  IF q = 0 THEN rest ELSE SubSeq(rest, 1, q - 1)

\* os.path.basename(p): what follows the last "/"
Basename(p) == SubSeq(p, RFind(p, "/") + 1, Len(p))

\* os.path.splitext(name) for a name without "/": the extension starts at the
\* last dot, unless only dots precede it
Splitext(name) ==
    LET dot == RFind(name, ".")
    IN  IF dot > 0 /\ \E i \in 1..(dot - 1) : name[i] # "."
        THEN <<SubSeq(name, 1, dot - 1), SubSeq(name, dot, Len(name))>>
        ELSE <<name, <<>>>>

\* urljoin(base_url, href) for a base of the form Origin/dir/.../ and hrefs
\* without dot segments and fragments: an absolute URL is kept, a path
\* starting with "/" replaces the base's path, a query replaces the base's
\* query, anything else replaces what follows the base's last "/"
UrlJoin(base_url, href) ==
    LET basePath == UrlPath(base_url)
    IN  IF href = <<>> THEN base_url
        ELSE IF Head(href) = Origin THEN href
        ELSE IF Head(href) = "/" THEN <<Origin>> \o href
        ELSE IF Head(href) = "?" THEN <<Origin>> \o basePath \o href
        ELSE <<Origin>> \o SubSeq(basePath, 1, RFind(basePath, "/")) \o href

\* ------------------------------------------------------------------------
\* find_download_links
\* ------------------------------------------------------------------------

\* the test of line 117 for one resolved URL
Qualifies(absolute_url, allowed_extensions) ==
    \E i \in 1..Len(allowed_extensions) :
        EndsWith(Lower(absolute_url), allowed_extensions[i])

\* the loop of lines 113-120 over the hrefs of the page, in markup order
RECURSIVE FindLoop(_, _, _, _)
FindLoop(hrefs, base_url, allowed_extensions, found_links) ==
    IF hrefs = <<>> THEN found_links
    ELSE LET absolute_url == UrlJoin(base_url, Head(hrefs))
             keep == /\ Qualifies(absolute_url, allowed_extensions)
                     /\ \A i \in 1..Len(found_links) : found_links[i] # absolute_url
         IN  FindLoop(Tail(hrefs), base_url, allowed_extensions,
                      IF keep THEN Append(found_links, absolute_url) ELSE found_links)

\* lines 113-120 without the test of line 118: every qualifying href is kept
find_download_links_KeepsRepeats(hrefs, base_url, allowed_extensions) ==
    SelectSeq([i \in 1..Len(hrefs) |-> UrlJoin(base_url, hrefs[i])],
              LAMBDA u : Qualifies(u, allowed_extensions))

find_download_links(hrefs, base_url, allowed_extensions) ==
    FindLoop(hrefs, base_url, allowed_extensions, <<>>)

\* ------------------------------------------------------------------------
\* The environment: the web site, the configuration file, the calendar
\* ------------------------------------------------------------------------

P1 == <<Origin, "/", "a", "/">>
P2 == <<Origin, "/", "b", "/">>
P3 == <<Origin, "/", "c", "/">>

\* The hrefs of the <a href> elements of each target page, in markup order.
\* The pages do not change between runs.
PageMarkup(url) ==
    CASE url = P1 -> << <<"?", "q", "=", ".", "p", "d", "f">>,
                        <<"x", ".", "p", "d", "f">>,
                        <<"/", "b", "/", "x", ".", "p", "d", "f">>,
                        <<"x", ".", "p", "d", "f">> >>
      [] url = P2 -> << <<"/", "a", "/", "x", ".", "p", "d", "f">>,
                        <<"n", ".", "t", "x", "t">>,
                        <<"x", ".", "p", "d", "f">> >>
      [] OTHER    -> << <<"n", ".", "t", "x", "t">> >>

L0 == <<Origin, "/", "a", "/", "?", "q", "=", ".", "p", "d", "f">>
L1 == <<Origin, "/", "a", "/", "x", ".", "p", "d", "f">>
L2 == <<Origin, "/", "b", "/", "x", ".", "p", "d", "f">>

Links == {L0, L1, L2}

\* organization_rule values of the configuration file; "size" is a value
\* organize_file does not know
Rules == {"date", "type", "type_then_date", "size"}

\* datetime.now().strftime("%Y-%m-%d") on the day of a run, one path
\* component.  The runs of a behaviour happen on the same day: that is when
\* the files of one run meet those of the run before in the same folder.
Dates == {<<"2024-05-01">>}

\* What load_config returns: None, or the dictionary of the file with the
\* defaults of lines 271-276 applied
Configs ==
    {[loaded |-> FALSE]}
    \cup {[loaded |-> TRUE, target_urls |-> t,
           allowed_extensions |-> <<<<".", "p", "d", "f">>>>,
           organization_rule |-> r] :
              t \in {<<P1, P3, P2>>}, r \in Rules}
    \cup {[loaded |-> TRUE, target_urls |-> <<>>,
           allowed_extensions |-> <<<<".", "p", "d", "f">>>>,
           organization_rule |-> "date"],
          [loaded |-> TRUE, target_urls |-> <<P1>>,
           allowed_extensions |-> <<>>, organization_rule |-> "date"]}

\* ------------------------------------------------------------------------
\* The file system below DOWNLOAD_BASE_FOLDER
\* ------------------------------------------------------------------------
\* A path is the sequence of its components below the base folder; <<>> is
\* the base folder itself.  files maps the path of each regular file to its
\* body; dirs is the set of directories.  A body records the URL it was
\* streamed from and whether the stream was written to its end.

Body(url, complete) == [src |-> url, complete |-> complete]

\* os.path.exists(path)
Exists(fs_files, fs_dirs, path) == path \in DOMAIN fs_files \/ path \in fs_dirs

Prefixes(path) == {SubSeq(path, 1, n) : n \in 0..Len(path)}

\* os.makedirs(path, exist_ok=True) raises when a component is a regular file
MakedirsBlocked(fs_files, path) == Prefixes(path) \cap DOMAIN fs_files # {}

\* ... and may raise (permissions, full disk) when it has a directory to
\* create; a path that is a directory already is accepted as it is
MakedirsMayFail(fs_dirs, path) == ~(Prefixes(path) \subseteq fs_dirs)

\* os.makedirs(path, exist_ok=True): the directory and its missing parents
Makedirs(fs_dirs, path) == fs_dirs \cup Prefixes(path)

\* ------------------------------------------------------------------------
\* organize_file: destination directory and collision-free file name
\* ------------------------------------------------------------------------

\* line 191: the extension, lower-cased, without its dot
FileExtension(file_name) == Remove(Lower(Splitext(file_name)[2]), ".")

\* lines 200-203 and 205-208 without capitalize()
TypeFolder_AsWritten(file_name) ==
    IF Remove(Splitext(file_name)[2], ".") # <<>>
    THEN Remove(Splitext(file_name)[2], ".")
    ELSE <<"O", "t", "r", "o", "s">>

\* lines 200-203 and 205-208
TypeFolder(file_name) ==
    IF FileExtension(file_name) # <<>>
    THEN Capitalize(FileExtension(file_name))
    ELSE <<"O", "t", "r", "o", "s">>

KnownRule(rule_type) == rule_type \in {"date", "type", "type_then_date"}

\* lines 196-218: final_destination_dir below the base folder
DestinationDir(file_name, rule_type, today_date) ==
    CASE rule_type = "date" -> <<today_date>>
      [] rule_type = "type" -> <<TypeFolder(file_name)>>
      [] rule_type = "type_then_date" -> <<TypeFolder(file_name), today_date>>

\* line 226: name(counter).ext
NumberedName(file_name, counter) ==
    Splitext(file_name)[1] \o <<"(", ToString(counter), ")">> \o Splitext(file_name)[2]

\* lines 223-228: the while loop, entered with the candidate name and counter
RECURSIVE CollisionLoop(_, _, _, _, _, _)
CollisionLoop(fs_files, fs_dirs, dir, file_name, candidate, counter) ==
    IF Exists(fs_files, fs_dirs, Append(dir, candidate))
    THEN CollisionLoop(fs_files, fs_dirs, dir, file_name,
                       NumberedName(file_name, counter), counter + 1)
    ELSE candidate

\* line 221 without the loop of lines 223-228
FinalFileName_NoLoop(fs_files, fs_dirs, dir, file_name) == file_name

\* lines 221-228: the name the file gets in the destination directory
FinalFileName(fs_files, fs_dirs, dir, file_name) ==
    CollisionLoop(fs_files, fs_dirs, dir, file_name, file_name, 1)

\* ------------------------------------------------------------------------
\* The state
\* ------------------------------------------------------------------------

VARIABLES
    config,                    \* what load_config returns (the file is fixed)
    run,                       \* which run of main() this is
    force_download,            \* args.force_download of this run
    today,                     \* the date of this run
    pc,                        \* where main() stands
    url_index,                 \* position of the for loop of line 304
    download_links,            \* the links of the current page
    link_index,                \* position of the for loop of line 311
    downloaded_file_path,      \* result of download_file for the current link
    organized_path,            \* result of organize_file for the current link
    downloaded_urls_history,   \* the in-memory history set
    initial_downloaded_count,  \* its size when loaded
    history_file,              \* the history file on disk
    files,                     \* regular files below the base folder
    dirs,                      \* directories below the base folder
    faults,                    \* environment failures injected so far
    \* observations, read by the properties only
    loaded_history,            \* what load_download_history returned
    ok_links,                  \* links downloaded and organized in this run
    downloads,                 \* per link: bodies streamed from the network
    requests,                  \* network requests issued, pages and files
    history_reads,             \* reads of the history file in this run
    history_writes,            \* save_download_history calls in this run
    pages_tried,               \* positions of TARGET_URLS whose page was requested
    fetched,                   \* links requested from the network in this run
    skipped,                   \* links skipped by line 312 in this run
    force_used,                \* some run so far had --force-download
    previous_history,          \* the in-memory history the previous run ended with
    sleeps,                    \* time.sleep calls of this run
    attempts,                  \* download_file calls of this run
    rested,                    \* time.sleep was called since the run's last request
    \* one call of find_download_links, for the properties of that function
    call,                      \* "idle", "input" or "returned"
    in_hrefs,                  \* the hrefs of the markup passed in
    in_base,                   \* base_url
    in_allowed,                \* allowed_extensions
    out_links                  \* the list returned

vars == <<config, run, force_download, today, pc, url_index, download_links,
          link_index, downloaded_file_path, organized_path,
          downloaded_urls_history, initial_downloaded_count, history_file,
          files, dirs, faults, loaded_history, ok_links, downloads, requests,
          history_reads, history_writes, pages_tried, fetched, skipped,
          force_used, previous_history, sleeps, attempts, rested, call,
          in_hrefs, in_base, in_allowed, out_links>>

memory == <<url_index, download_links, link_index, downloaded_file_path,
            organized_path, downloaded_urls_history, initial_downloaded_count>>

disk == <<history_file, files, dirs>>

observed == <<loaded_history, ok_links, downloads, requests, history_reads,
              history_writes, pages_tried, fetched, skipped, force_used,
              previous_history>>

\* the observations of the calls of time.sleep
timing == <<sleeps, attempts, rested>>

\* the variables of a single call of a function
pure == <<call, in_hrefs, in_base, in_allowed, out_links>>

\* the variables of main()
pipeline == <<config, run, force_download, today, pc, memory, disk, faults,
              observed, timing>>

\* the observations a run keeps from the runs before it
carried == <<force_used, previous_history>>

TARGET_URLS == config.target_urls
ALLOWED_EXTENSIONS == config.allowed_extensions
ORGANIZATION_RULE == config.organization_rule

EmptyFiles == [p \in {} |-> Body(<<>>, TRUE)]

NoCall ==
    /\ call = "idle"
    /\ in_hrefs = <<>>
    /\ in_base = P1
    /\ in_allowed = <<>>
    /\ out_links = <<>>

\* main() is about to run for the first time: nothing in memory, nothing
\* below the base folder
FreshStart ==
    /\ run = 1
    /\ force_download = FALSE
    /\ today = <<"2024-05-01">>
    /\ pc = "start"
    /\ url_index = 1
    /\ download_links = <<>>
    /\ link_index = 1
    /\ downloaded_file_path = NoPath
    /\ organized_path = NoPath
    /\ downloaded_urls_history = {}
    /\ initial_downloaded_count = 0
    /\ files = EmptyFiles
    /\ dirs = {}
    /\ faults = 0
    /\ loaded_history = {}
    /\ ok_links = {}
    /\ downloads = [l \in Links |-> 0]
    /\ requests = 0
    /\ history_reads = 0
    /\ history_writes = 0
    /\ pages_tried = {}
    /\ fetched = {}
    /\ skipped = {}
    /\ force_used = FALSE
    /\ previous_history = {}
    /\ sleeps = 0
    /\ attempts = 0
    /\ rested = TRUE

Init ==
    /\ NoCall
    /\ FreshStart
    /\ config \in Configs
    /\ history_file \in {[kind |-> "absent", items |-> <<>>],
                         [kind |-> "corrupt", items |-> <<>>]}

CanFail == faults < MaxFaults

\* ------------------------------------------------------------------------
\* load_download_history, save_download_history
\* ------------------------------------------------------------------------

Range(seq) == {seq[i] : i \in 1..Len(seq)}

\* a load that takes the URLs it can read out of a file that is no valid JSON
load_download_history_Lenient(file) == Range(file.items)

\* lines 49-61: the set of the stored list; the empty set when the file is
\* absent or does not hold valid JSON
load_download_history(file) ==
    IF file.kind = "list" THEN Range(file.items) ELSE {}

\* list(downloaded_urls): the elements of the set, each once, in some order
Listings(urls) ==
    {seq \in [1..Cardinality(urls) -> urls] : Range(seq) = urls}

\* lines 72-77: what the file holds afterwards.  open(..., 'w') may fail and
\* leave the file as it was; json.dump may fail after open has truncated it
save_download_history(file, urls, outcome) ==
    CASE outcome = "saved" ->
            {[kind |-> "list", items |-> seq] : seq \in Listings(urls)}
      [] outcome = "open_error" -> {file}
      [] outcome = "write_error" -> {[kind |-> "corrupt", items |-> <<>>]}

\* ------------------------------------------------------------------------
\* main: decisions
\* ------------------------------------------------------------------------

ConfigOk == config.loaded

\* lines 267-281 without the test of line 283
Aborts_IgnoresExtensions(c) ==
    IF ~c.loaded THEN TRUE ELSE c.target_urls = <<>>

\* lines 267-286: main() returns before it does anything
Aborts(c) ==
    IF ~c.loaded THEN TRUE
    ELSE c.target_urls = <<>> \/ c.allowed_extensions = <<>>

\* line 312 with the test of the force flag inverted
ShouldSkip_ForceInverted(link, history, force) == link \in history /\ force

\* line 312
ShouldSkip(link, history, force) == link \in history /\ ~force

\* line 322 without the test of line 320
RecordHistory_Unconditional(history, link, organized) == history \cup {link}

\* lines 320-322
RecordHistory(history, link, organized) ==
    IF organized # NoPath THEN history \cup {link} ELSE history

\* line 336 with >= for >
HistoryGrew_OrEqual(history, initial_count) ==
    Cardinality(history) >= initial_count

\* line 336
HistoryGrew(history, initial_count) == Cardinality(history) > initial_count

\* a for loop of line 311 that passes over every other link
NextLink_SkipsALink ==
    /\ link_index' = link_index + 2
    /\ pc' = IF link_index + 1 < Len(download_links) THEN "link" ELSE "sleep_url"

\* the for loop of line 311 moves on: the next link, or line 334
NextLink ==
    /\ link_index' = link_index + 1
    /\ pc' = IF link_index < Len(download_links) THEN "link" ELSE "sleep_url"

CurrentLink == download_links[link_index]

\* ------------------------------------------------------------------------
\* main: steps
\* ------------------------------------------------------------------------

\* lines 264-301: arguments, configuration, base folder, history
StartRun ==
    /\ pc = "start"
    /\ UNCHANGED <<pure, timing>>
    /\ \E f \in BOOLEAN : force_download' = f /\ force_used' = (force_used \/ f)
    /\ \E d \in Dates : (run = 1 => d = today) /\ today' = d
    /\ UNCHANGED <<config, run, url_index, download_links, link_index,
                   downloaded_file_path, organized_path, history_file, files,
                   downloads, requests, ok_links, history_writes,
                   pages_tried, fetched, skipped, previous_history>>
    /\ \/ /\ Aborts(config)
          /\ pc' = "exit"
          /\ UNCHANGED <<downloaded_urls_history, initial_downloaded_count,
                         dirs, faults, loaded_history, history_reads>>
       \/ /\ ~Aborts(config)
          /\ \/ \* line 292 raises: the base folder cannot be created
                /\ MakedirsMayFail(dirs, <<>>)
                /\ CanFail
                /\ faults' = faults + 1
                /\ pc' = "crashed"
                /\ UNCHANGED <<downloaded_urls_history,
                               initial_downloaded_count, dirs, loaded_history,
                               history_reads>>
             \/ /\ dirs' = Makedirs(dirs, <<>>)
                /\ downloaded_urls_history' = load_download_history(history_file)
                /\ loaded_history' = load_download_history(history_file)
                /\ initial_downloaded_count' =
                       Cardinality(load_download_history(history_file))
                /\ history_reads' = 1
                /\ pc' = "page"
                /\ UNCHANGED faults

\* lines 304-310 and 328-332: get_page_content, then find_download_links
FetchPage ==
    /\ pc = "page"
    /\ UNCHANGED <<pure, sleeps, attempts>>
    /\ requests' = requests + 1
    /\ rested' = FALSE
    /\ pages_tried' = pages_tried \cup {url_index}
    /\ UNCHANGED <<config, run, force_download, today, url_index,
                   downloaded_file_path, organized_path,
                   downloaded_urls_history, initial_downloaded_count, disk,
                   loaded_history, ok_links, downloads, history_reads,
                   history_writes, fetched, skipped, carried>>
    /\ \/ \* the request fails: html_content is None
          /\ CanFail
          /\ faults' = faults + 1
          /\ pc' = "sleep_url"
          /\ UNCHANGED <<download_links, link_index>>
       \/ /\ download_links' = find_download_links(
                 PageMarkup(TARGET_URLS[url_index]), TARGET_URLS[url_index],
                 ALLOWED_EXTENSIONS)
          /\ link_index' = 1
          /\ pc' = IF download_links' # <<>> THEN "link" ELSE "sleep_url"
          /\ UNCHANGED faults

\* lines 311-314: the history check of the current link
CheckHistory ==
    /\ pc = "link"
    /\ UNCHANGED <<pure, timing>>
    /\ IF ShouldSkip(CurrentLink, downloaded_urls_history, force_download)
       THEN NextLink /\ skipped' = skipped \cup {CurrentLink}
       ELSE pc' = "download" /\ UNCHANGED <<link_index, skipped>>
    /\ UNCHANGED <<config, run, force_download, today, url_index,
                   download_links, downloaded_file_path, organized_path,
                   downloaded_urls_history, initial_downloaded_count, disk,
                   faults, loaded_history, ok_links, downloads, requests,
                   history_reads, history_writes, pages_tried, fetched,
                   carried>>

\* line 316 and download_file (lines 127-169)
DownloadFile ==
    /\ pc = "download"
    /\ UNCHANGED <<pure, sleeps>>
    /\ attempts' = attempts + 1
    /\ UNCHANGED <<config, run, force_download, today, url_index,
                   download_links, link_index, organized_path,
                   downloaded_urls_history, initial_downloaded_count,
                   history_file, dirs, loaded_history, ok_links,
                   history_reads, history_writes, pages_tried, skipped,
                   carried>>
    /\ LET file_name == Basename(UrlPath(CurrentLink))
           file_path == <<file_name>>
           named == /\ file_name # <<>>
                    /\ ~MakedirsBlocked(files, <<>>)
                    /\ ~MakedirsMayFail(dirs, <<>>)
       IN  \/ \* lines 133-135: no file name
              /\ file_name = <<>>
              /\ downloaded_file_path' = NoPath
              /\ pc' = "sleep_link"
              /\ UNCHANGED <<files, faults, downloads, requests, fetched>>
           \/ \* line 139 raises: nothing in main catches it
              /\ file_name # <<>>
              /\ \/ MakedirsBlocked(files, <<>>)
                 \/ MakedirsMayFail(dirs, <<>>) /\ CanFail
              /\ faults' = faults + 1
              /\ pc' = "crashed"
              /\ UNCHANGED <<downloaded_file_path, files, downloads, requests,
                             fetched>>
           \/ \* lines 141-143: a file of that name is in the base folder
              /\ named
              /\ Exists(files, dirs, file_path)
              /\ downloaded_file_path' = file_path
              /\ pc' = "organize"
              /\ UNCHANGED <<files, faults, downloads, requests, fetched>>
           \/ \* lines 146-154: the body is streamed and written to its end
              /\ named
              /\ ~Exists(files, dirs, file_path)
              /\ requests' = requests + 1
              /\ fetched' = fetched \cup {CurrentLink}
              /\ files' = (file_path :> Body(CurrentLink, TRUE)) @@ files
              /\ downloads' = [downloads EXCEPT ![CurrentLink] = @ + 1]
              /\ downloaded_file_path' = file_path
              /\ pc' = "organize"
              /\ UNCHANGED faults
           \/ \* the request or open() fails: nothing is written
              /\ named
              /\ ~Exists(files, dirs, file_path)
              /\ CanFail
              /\ faults' = faults + 1
              /\ requests' = requests + 1
              /\ fetched' = fetched \cup {CurrentLink}
              /\ downloaded_file_path' = NoPath
              /\ pc' = "sleep_link"
              /\ UNCHANGED <<files, downloads>>
           \/ \* the stream or a write fails after open(): a part is on disk
              /\ named
              /\ ~Exists(files, dirs, file_path)
              /\ CanFail
              /\ faults' = faults + 1
              /\ requests' = requests + 1
              /\ fetched' = fetched \cup {CurrentLink}
              /\ files' = (file_path :> Body(CurrentLink, FALSE)) @@ files
              /\ downloaded_file_path' = NoPath
              /\ pc' = "sleep_link"
              /\ UNCHANGED downloads
    /\ rested' = (rested /\ requests' = requests)

\* shutil.move(src, dst) with dst not existing.  The destination directory
\* lies below the base folder, on its file system, where shutil.move is
\* os.rename: the body leaves src and appears at dst, or the call raises
MoveFile(fs_files, src, dst) ==
    [p \in (DOMAIN fs_files \ {src}) \cup {dst} |->
        IF p = dst THEN fs_files[src] ELSE fs_files[p]]

\* a move that removes the source although it raised
FailedMove_LosesSource(fs_files, src, dst) ==
    [p \in DOMAIN fs_files \ {src} |-> fs_files[p]]

\* shutil.move(src, dst) raises: the rename did not happen, nothing moved
\* and nothing was copied
FailedMove(fs_files, src, dst) == fs_files

\* lines 317-326 and organize_file (lines 172-241); lines 320-322 record the
\* link when organize_file returned a path
OrganizeFile ==
    /\ pc = "organize"
    /\ UNCHANGED <<pure, timing>>
    /\ UNCHANGED <<config, run, force_download, today, url_index,
                   download_links, link_index, downloaded_file_path,
                   initial_downloaded_count, history_file, loaded_history,
                   downloads, requests, history_reads, history_writes,
                   pages_tried, fetched, skipped, carried>>
    /\ LET file_path == downloaded_file_path
           file_name == file_path[Len(file_path)]
           known == /\ Exists(files, dirs, file_path)
                    /\ KnownRule(ORGANIZATION_RULE)
           final_destination_dir ==
               DestinationDir(file_name, ORGANIZATION_RULE, today)
           final_file_path ==
               Append(final_destination_dir,
                      FinalFileName(files, Makedirs(dirs, final_destination_dir),
                                    final_destination_dir, file_name))
       IN  \/ \* lines 186-188 and 211-213: nothing to organize, unknown rule
              /\ ~known
              /\ organized_path' = NoPath
              /\ downloaded_urls_history' =
                     RecordHistory(downloaded_urls_history, CurrentLink, NoPath)
              /\ pc' = "sleep_link"
              /\ UNCHANGED <<files, dirs, faults, ok_links>>
           \/ \* line 220 raises: nothing in main catches it
              /\ known
              /\ \/ MakedirsBlocked(files, final_destination_dir)
                 \/ MakedirsMayFail(dirs, final_destination_dir) /\ CanFail
              /\ faults' = faults + 1
              /\ pc' = "crashed"
              /\ UNCHANGED <<organized_path, downloaded_urls_history, files,
                             dirs, ok_links>>
           \/ \* lines 220-234: the file is moved
              /\ known
              /\ ~MakedirsBlocked(files, final_destination_dir)
              /\ dirs' = Makedirs(dirs, final_destination_dir)
              /\ files' = MoveFile(files, file_path, final_file_path)
              /\ organized_path' = final_file_path
              /\ downloaded_urls_history' =
                     RecordHistory(downloaded_urls_history, CurrentLink,
                                   final_file_path)
              /\ ok_links' = ok_links \cup {CurrentLink}
              /\ pc' = "sleep_link"
              /\ UNCHANGED faults
           \/ \* lines 235-241: shutil.move fails, the file stays where it was
              /\ known
              /\ ~MakedirsBlocked(files, final_destination_dir)
              /\ CanFail
              /\ faults' = faults + 1
              /\ dirs' = Makedirs(dirs, final_destination_dir)
              /\ organized_path' = NoPath
              /\ downloaded_urls_history' =
                     RecordHistory(downloaded_urls_history, CurrentLink, NoPath)
              /\ files' = FailedMove(files, file_path, final_file_path)
              /\ pc' = "sleep_link"
              /\ UNCHANGED ok_links

\* line 327: time.sleep after a link that reached download_file
SleepLink ==
    /\ pc = "sleep_link"
    /\ UNCHANGED <<pure, attempts>>
    /\ sleeps' = sleeps + 1
    /\ rested' = TRUE
    /\ NextLink
    /\ UNCHANGED <<config, run, force_download, today, url_index,
                   download_links, downloaded_file_path, organized_path,
                   downloaded_urls_history, initial_downloaded_count, disk,
                   faults, observed>>

\* line 334: time.sleep after a target URL; then the next URL, or line 336
SleepUrl ==
    /\ pc = "sleep_url"
    /\ UNCHANGED <<pure, attempts>>
    /\ sleeps' = sleeps + 1
    /\ rested' = TRUE
    /\ url_index' = url_index + 1
    /\ pc' = IF url_index < Len(TARGET_URLS) THEN "page" ELSE "finalize"
    /\ UNCHANGED <<config, run, force_download, today, download_links,
                   link_index, downloaded_file_path, organized_path,
                   downloaded_urls_history, initial_downloaded_count, disk,
                   faults, observed>>

\* lines 336-340: the history is saved when it grew
Finalize ==
    /\ pc = "finalize"
    /\ UNCHANGED <<pure, timing>>
    /\ pc' = "done"
    /\ UNCHANGED <<config, run, force_download, today, memory, files, dirs,
                   loaded_history, ok_links, downloads, requests,
                   history_reads, pages_tried, fetched, skipped, carried>>
    /\ IF HistoryGrew(downloaded_urls_history, initial_downloaded_count)
       THEN /\ history_writes' = history_writes + 1
            /\ \E outcome \in {"saved", "open_error", "write_error"} :
                  /\ outcome # "saved" => CanFail
                  /\ faults' = IF outcome = "saved" THEN faults ELSE faults + 1
                  /\ history_file' \in save_download_history(
                         history_file, downloaded_urls_history, outcome)
       ELSE UNCHANGED <<history_writes, history_file, faults>>

\* main() has returned or died; the program is started again
Relaunch ==
    /\ pc \in {"done", "exit", "crashed", "killed"}
    /\ UNCHANGED pure
    /\ run < MaxRuns
    /\ run' = run + 1
    /\ pc' = "start"
    /\ url_index' = 1
    /\ download_links' = <<>>
    /\ link_index' = 1
    /\ downloaded_file_path' = NoPath
    /\ organized_path' = NoPath
    /\ downloaded_urls_history' = {}
    /\ initial_downloaded_count' = 0
    /\ loaded_history' = {}
    /\ ok_links' = {}
    /\ history_reads' = 0
    /\ history_writes' = 0
    /\ pages_tried' = {}
    /\ fetched' = {}
    /\ skipped' = {}
    /\ previous_history' = downloaded_urls_history
    /\ sleeps' = 0
    /\ attempts' = 0
    /\ rested' = TRUE
    /\ UNCHANGED <<config, force_download, today, disk, faults, downloads,
                   requests, force_used>>

Next ==
    \/ StartRun
    \/ FetchPage
    \/ CheckHistory
    \/ DownloadFile
    \/ OrganizeFile
    \/ SleepLink
    \/ SleepUrl
    \/ Finalize
    \/ Relaunch

Spec == Init /\ [][Next]_vars

\* ------------------------------------------------------------------------
\* find_download_links called on its own
\* ------------------------------------------------------------------------

\* hrefs a page may hold: relative, upper-case, rooted, of another type, a
\* query only, a query after the extension, absolute, empty
ExtractHrefs ==
    { <<"x", ".", "p", "d", "f">>,
      <<"X", ".", "P", "D", "F">>,
      <<"/", "b", "/", "x", ".", "p", "d", "f">>,
      <<"n", ".", "t", "x", "t">>,
      <<"?", "q", "=", ".", "p", "d", "f">>,
      <<"x", ".", "p", "d", "f", "?", "q">>,
      <<Origin, "/", "b", "/", "x", ".", "p", "d", "f">>,
      <<>> }

\* allowed_extensions lists of a configuration file
ExtractAllowed ==
    { << <<".", "p", "d", "f">> >>,
      << <<".", "P", "D", "F">> >>,
      << <<".", "t", "x", "t">>, <<".", "p", "d", "f">> >> }

InitExtract ==
    /\ call = "input"
    /\ in_hrefs = <<>>
    /\ in_base \in {P1, P2}
    /\ in_allowed \in ExtractAllowed
    /\ out_links = <<>>
    /\ config = [loaded |-> FALSE]
    /\ run = 1
    /\ force_download = FALSE
    /\ today = <<"2024-05-01">>
    /\ pc = "idle"
    /\ url_index = 1
    /\ download_links = <<>>
    /\ link_index = 1
    /\ downloaded_file_path = NoPath
    /\ organized_path = NoPath
    /\ downloaded_urls_history = {}
    /\ initial_downloaded_count = 0
    /\ history_file = [kind |-> "absent", items |-> <<>>]
    /\ files = EmptyFiles
    /\ dirs = {}
    /\ faults = 0
    /\ loaded_history = {}
    /\ ok_links = {}
    /\ downloads = [l \in Links |-> 0]
    /\ requests = 0
    /\ history_reads = 0
    /\ history_writes = 0
    /\ pages_tried = {}
    /\ fetched = {}
    /\ skipped = {}
    /\ force_used = FALSE
    /\ previous_history = {}
    /\ sleeps = 0
    /\ attempts = 0
    /\ rested = TRUE

\* the markup gets one more <a href>
AddHref ==
    /\ call = "input"
    /\ Len(in_hrefs) < MaxHrefs
    /\ \E href \in ExtractHrefs : in_hrefs' = Append(in_hrefs, href)
    /\ UNCHANGED <<call, in_base, in_allowed, out_links, pipeline>>

\* lines 104-124
CallFindDownloadLinks ==
    /\ call = "input"
    /\ out_links' = find_download_links(in_hrefs, in_base, in_allowed)
    /\ call' = "returned"
    /\ UNCHANGED <<in_hrefs, in_base, in_allowed, pipeline>>

NextExtract == AddHref \/ CallFindDownloadLinks

SpecExtract == InitExtract /\ [][NextExtract]_vars

\* ------------------------------------------------------------------------
\* main() terminated from outside (a signal, a power cut) and started again
\* ------------------------------------------------------------------------

\* the positions of main() between line 302 and line 340
Running == {"page", "link", "download", "organize", "sleep_link", "sleep_url",
            "finalize"}

\* the process is killed between two steps of main(): memory is lost, the
\* disk stays as it is
Interrupt ==
    /\ pc \in Running
    /\ run < MaxRuns
    /\ pc' = "killed"
    /\ UNCHANGED <<config, run, force_download, today, memory, disk, faults,
                   observed, timing, pure>>

\* the process is killed inside download_file while the loop of lines
\* 151-152 writes the chunks: the file opened at line 150 holds a part of
\* the body
InterruptDownload ==
    /\ pc = "download"
    /\ run < MaxRuns
    /\ LET file_name == Basename(UrlPath(CurrentLink))
       IN  /\ file_name # <<>>
           /\ ~Exists(files, dirs, <<file_name>>)
           /\ files' = (<<file_name>> :> Body(CurrentLink, FALSE)) @@ files
    /\ requests' = requests + 1
    /\ fetched' = fetched \cup {CurrentLink}
    /\ attempts' = attempts + 1
    /\ rested' = FALSE
    /\ pc' = "killed"
    /\ UNCHANGED <<config, run, force_download, today, memory, history_file,
                   dirs, faults, loaded_history, ok_links, downloads,
                   history_reads, history_writes, pages_tried, skipped,
                   carried, sleeps, pure>>

\* the process is killed inside save_download_history after open(..., 'w')
\* of line 73 has truncated the file
InterruptSave ==
    /\ pc = "finalize"
    /\ run < MaxRuns
    /\ HistoryGrew(downloaded_urls_history, initial_downloaded_count)
    /\ history_writes' = history_writes + 1
    /\ history_file' = [kind |-> "corrupt", items |-> <<>>]
    /\ pc' = "killed"
    /\ UNCHANGED <<config, run, force_download, today, memory, files, dirs,
                   faults, loaded_history, ok_links, downloads, requests,
                   history_reads, pages_tried, fetched, skipped, carried,
                   timing, pure>>

\* a configuration main() accepts, with a rule organize_file knows
InitInterrupt ==
    /\ Init
    /\ ConfigOk
    /\ TARGET_URLS # <<>>
    /\ ALLOWED_EXTENSIONS # <<>>
    /\ KnownRule(ORGANIZATION_RULE)

NextInterrupt ==
    \/ StartRun
    \/ FetchPage
    \/ CheckHistory
    \/ DownloadFile
    \/ OrganizeFile
    \/ SleepLink
    \/ SleepUrl
    \/ Finalize
    \/ Relaunch
    \/ Interrupt
    \/ InterruptDownload
    \/ InterruptSave

SpecInterrupt == InitInterrupt /\ [][NextInterrupt]_vars

\* ------------------------------------------------------------------------
\* main() started on a history file left in any state
\* ------------------------------------------------------------------------

\* The history file before the first run: absent; no valid JSON (empty, or
\* cut short after a URL); not readable as text (open or the decoding
\* raises); a list.  items are the URLs that stand in the file's text.
HistoryFiles ==
    {[kind |-> "absent", items |-> <<>>],
     [kind |-> "corrupt", items |-> <<>>],
     [kind |-> "corrupt", items |-> <<L1>>],
     [kind |-> "unreadable", items |-> <<L2, L1>>],
     [kind |-> "list", items |-> <<L1>>]}

InitHistory ==
    /\ NoCall
    /\ FreshStart
    /\ config \in {c \in Configs : /\ c.loaded
                                   /\ c.target_urls # <<>>
                                   /\ c.allowed_extensions # <<>>
                                   /\ c.organization_rule = "date"}
    /\ history_file \in HistoryFiles

SpecHistory == InitHistory /\ [][Next]_vars

\* ------------------------------------------------------------------------
\* organize_file called on a staged file
\* ------------------------------------------------------------------------

\* Number of files put into the destination folder before the call.
MaxExisting == 2

\* names of staged files: lower-case and upper-case extension, another
\* type, no dot, a dot and nothing after it
OrganizeNames ==
    { <<"x", ".", "p", "d", "f">>,
      <<"X", ".", "P", "D", "F">>,
      <<"d", ".", "c", "s", "v">>,
      <<"n">>,
      <<"x", ".">> }

\* datetime.now().strftime("%Y-%m-%d") on the day of the call
OrganizeDates == {<<"2024-05-01">>, <<"2024-12-31">>}

\* main() at line 319: download_file has returned the path of a file it
\* streamed from the only link of the first page
InitOrganize ==
    /\ NoCall
    /\ \E file_name \in OrganizeNames :
          /\ download_links = <<P1 \o file_name>>
          /\ downloaded_file_path = <<file_name>>
          /\ files = (<<file_name>> :> Body(P1 \o file_name, TRUE))
    /\ config \in {[loaded |-> TRUE, target_urls |-> <<P1>>,
                     allowed_extensions |-> <<<<".">>>>,
                     organization_rule |-> r] : r \in Rules}
    /\ today \in OrganizeDates
    /\ run = 1
    /\ force_download = FALSE
    /\ pc = "organize"
    /\ url_index = 1
    /\ link_index = 1
    /\ organized_path = NoPath
    /\ downloaded_urls_history = {}
    /\ initial_downloaded_count = 0
    /\ history_file = [kind |-> "absent", items |-> <<>>]
    /\ dirs = {<<>>}
    /\ faults = 0
    /\ loaded_history = {}
    /\ ok_links = {}
    /\ downloads = [l \in Links |-> 0]
    /\ requests = 2
    /\ history_reads = 1
    /\ history_writes = 0
    /\ pages_tried = {1}
    /\ fetched = {download_links[1]}
    /\ skipped = {}
    /\ force_used = FALSE
    /\ previous_history = {}
    /\ sleeps = 0
    /\ attempts = 1
    /\ rested = FALSE

\* a file of the staged file's name, or of its first numbered name, is in
\* the destination folder already
PlaceExisting ==
    /\ pc = "organize"
    /\ KnownRule(ORGANIZATION_RULE)
    /\ Cardinality(DOMAIN files) <= MaxExisting
    /\ LET file_name == downloaded_file_path[1]
           dir == DestinationDir(file_name, ORGANIZATION_RULE, today)
       IN  \E name \in {file_name, NumberedName(file_name, 1)} :
              /\ Append(dir, name) \notin DOMAIN files
              /\ files' = (Append(dir, name) :> Body(L2, TRUE)) @@ files
              /\ dirs' = Makedirs(dirs, dir)
    /\ UNCHANGED <<config, run, force_download, today, pc, memory,
                   history_file, faults, observed, timing, pure>>

NextOrganize == PlaceExisting \/ OrganizeFile

SpecOrganize == InitOrganize /\ [][NextOrganize]_vars

\* ------------------------------------------------------------------------
\* Properties
\* ------------------------------------------------------------------------

\* C1: with force mode off in every run, the body of each link is streamed
\* from the network at most once over the successive runs, and a run requests
\* none of the links the run before it had recorded in its history.
C1_DownloadedAtMostOnce ==
    ~force_used =>
        /\ \A l \in Links : downloads[l] <= 1
        /\ fetched \cap previous_history = {}

\* C2: the in-memory history holds, besides what was loaded, only links for
\* which download_file and then organize_file returned a path in this run;
\* it changes only when it is loaded, and when organize_file returns a path,
\* by exactly the link organized; a failed fetch or organize leaves it as it is.
C2_HistoryOnlyOnFullSuccess ==
    /\ [](downloaded_urls_history \subseteq loaded_history \cup ok_links)
    /\ [][downloaded_urls_history' # downloaded_urls_history =>
            \/ pc = "start"
            \/ pc' = "start"
            \/ /\ pc = "organize"
               /\ downloaded_file_path # NoPath
               /\ organized_path' # NoPath
               /\ downloaded_urls_history' =
                      downloaded_urls_history \cup {CurrentLink}]_vars

\* a link's organize has failed after its download succeeded, while another
\* link of the run did get recorded
C2_Witness ==
    /\ pc = "sleep_link"
    /\ downloaded_file_path # NoPath
    /\ organized_path = NoPath
    /\ CurrentLink \notin downloaded_urls_history
    /\ downloaded_urls_history # loaded_history

\* C3: with force mode off, the step taken for a link that is in the history
\* issues no network request, leaves files, directories and the history file
\* as they are, leaves the history set as it is, and moves on to the next link.
C3_SkipTouchesNothing ==
    [][(pc = "link" /\ ~force_download
            /\ CurrentLink \in downloaded_urls_history) =>
          /\ requests' = requests
          /\ fetched' = fetched
          /\ disk' = disk
          /\ downloaded_urls_history' = downloaded_urls_history
          /\ link_index' = link_index + 1
          /\ pc' \in {"link", "sleep_url"}]_vars

\* one run has skipped a link that was loaded from the history file and a
\* link that it had recorded itself on an earlier page
C3_Witness ==
    /\ ~force_download
    /\ \E l \in skipped : l \in loaded_history
    /\ \E l \in skipped : l \notin loaded_history

\* C4: in force mode, download_file called for a link that is in the history
\* requests the file from the network, and a successful organize of such a
\* link leaves the history with the same entries (the URL once).
C4_ForcedLinkIsFetched ==
    [][(pc = "download" /\ force_download
            /\ CurrentLink \in downloaded_urls_history) =>
          /\ requests' = requests + 1
          /\ CurrentLink \in fetched']_vars

\* C5: the history file is read once, at the start of a run; it is written,
\* and save_download_history is called, only at the end of the run and exactly
\* when the history set holds more URLs than were loaded.
C5_SavedExactlyWhenGrown ==
    /\ [](history_reads <= 1 /\ history_writes <= 1)
    /\ [](pc \in Running \cup {"done"} => history_reads = 1)
    /\ [][/\ (history_file' # history_file \/ history_writes' > history_writes)
               => /\ pc = "finalize"
                  /\ Cardinality(downloaded_urls_history)
                         > Cardinality(loaded_history)
          /\ pc = "finalize"
               => (history_writes' = 1
                     <=> Cardinality(downloaded_urls_history)
                             > Cardinality(loaded_history))
          /\ history_reads' > history_reads => pc = "start"]_vars

\* a force-mode run has ended that organized links again, all of them in the
\* loaded history already, and did not call save_download_history
C5_Witness ==
    /\ pc = "done"
    /\ force_download
    /\ ok_links # {}
    /\ ok_links \subseteq loaded_history
    /\ history_writes = 0

\* C6: a run of a valid configuration that has loaded its history and has
\* stopped has gone through the persistence logic of lines 336-340.
C6_RunReachesPersistence ==
    (history_reads = 1 /\ pc \notin Running) => pc = "done"

\* C7: when a run has stopped, the page of every target URL was requested.
C7_LaterItemsStillAttempted ==
    (history_reads = 1 /\ pc \notin Running) =>
        pages_tried = 1..Len(TARGET_URLS)

\* x(k).pdf
Numbered(k) == <<"x", "(", ToString(k), ")", ".", "p", "d", "f">>

\* C8: when organize_file moves the staged x.pdf, every file that was below
\* the base folder before is still there with its body, the destination was
\* free, and the name in the destination directory is x.pdf when that is free
\* and otherwise x(k).pdf for the least k >= 1 that is free.
C8_CollisionNaming ==
    [][(pc = "organize" /\ organized_path' # NoPath) =>
          LET dir  == SubSeq(organized_path', 1, Len(organized_path') - 1)
              name == organized_path'[Len(organized_path')]
              taken(n) == Append(dir, n) \in DOMAIN files
          IN  /\ \A p \in DOMAIN files \ {downloaded_file_path} :
                     p \in DOMAIN files' /\ files'[p] = files[p]
              /\ organized_path' \notin DOMAIN files
              /\ files'[organized_path'] = files[downloaded_file_path]
              /\ downloaded_file_path \notin DOMAIN files'
              /\ IF ~taken(<<"x", ".", "p", "d", "f">>)
                 THEN name = <<"x", ".", "p", "d", "f">>
                 ELSE \E k \in 1..Cardinality(DOMAIN files) :
                         /\ name = Numbered(k)
                         /\ \A j \in 1..(k - 1) : taken(Numbered(j))]_vars

\* a file has been placed as x(2).pdf beside x.pdf and x(1).pdf
C8_Witness ==
    /\ pc = "sleep_link"
    /\ organized_path # NoPath
    /\ organized_path[Len(organized_path)] = Numbered(2)
    /\ \E p \in DOMAIN files : p[Len(p)] = Numbered(1)

C10_SuffixFilterIgnoresCase ==
    call = "returned" =>
        \A i \in 1..Len(in_hrefs) :
            LET absolute_url == UrlJoin(in_base, in_hrefs[i])
            IN  (absolute_url \in Range(out_links))
                <=> \E j \in 1..Len(in_allowed) :
                        EndsWith(Lower(absolute_url), Lower(in_allowed[j]))

\* C11: find_download_links returns every resolved URL that passes the test
\* of line 117 exactly once, in the order in which the URLs first appear in
\* the markup, whatever hrefs repeat or resolve to the same URL; it returns
\* the empty list when no href passes the test.
C11_EachLinkOnceInFirstSeenOrder ==
    call = "returned" =>
        LET resolved == [i \in 1..Len(in_hrefs) |-> UrlJoin(in_base, in_hrefs[i])]
            first(u) == CHOOSE i \in 1..Len(resolved) :
                            /\ resolved[i] = u
                            /\ \A j \in 1..(i - 1) : resolved[j] # u
        IN  /\ Range(out_links) =
                   {resolved[i] : i \in {k \in 1..Len(resolved) :
                                           Qualifies(resolved[k], in_allowed)}}
            /\ \A j, k \in 1..Len(out_links) :
                   j < k => /\ out_links[j] # out_links[k]
                            /\ first(out_links[j]) < first(out_links[k])

\* the markup held a rooted and an absolute href of one qualifying URL, after
\* another qualifying link; the URL is in the result once, in second place
C11_Witness ==
    /\ call = "returned"
    /\ Len(in_hrefs) = 3
    /\ in_hrefs[2] # in_hrefs[3]
    /\ UrlJoin(in_base, in_hrefs[2]) = UrlJoin(in_base, in_hrefs[3])
    /\ Len(out_links) = 2
    /\ out_links[2] = UrlJoin(in_base, in_hrefs[3])

LinkSteps == {"link", "download", "organize", "sleep_link"}

\* C12: the pages are requested in the order of TARGET_URLS, one at a time
\* and none passed over; the links of a page are gone through in the order
\* find_download_links returned them; the history check, the fetch, the
\* organize and the record of a step act on the current link only; the loop
\* moves to the next link only from the skip or from the delay after the
\* attempt, and to the next page only when every link of the page was gone
\* through.
C12_ProcessingOrder ==
    /\ [](pc \in Running =>
            pages_tried = IF pc \in {"page", "finalize"}
                          THEN 1..(url_index - 1)
                          ELSE 1..url_index)
    /\ [](pc \in LinkSteps => link_index \in 1..Len(download_links))
    /\ [](pc = "sleep_url" => link_index > Len(download_links))
    /\ [][pc' # "start" /\ pc # "start" =>
            /\ url_index' # url_index =>
                   pc = "sleep_url" /\ url_index' = url_index + 1
            /\ link_index' # link_index =>
                   \/ pc = "page" /\ link_index' = 1
                   \/ pc \in {"link", "sleep_link"}
                        /\ link_index' = link_index + 1
            /\ download_links' # download_links => pc = "page"
            /\ (pc = "page" /\ pc' = "link") =>
                   download_links' =
                       find_download_links(PageMarkup(TARGET_URLS[url_index]),
                                           TARGET_URLS[url_index],
                                           ALLOWED_EXTENSIONS)
            /\ skipped' # skipped =>
                   pc = "link" /\ skipped' = skipped \cup {CurrentLink}
            /\ fetched' # fetched =>
                   pc = "download" /\ fetched' = fetched \cup {CurrentLink}
            /\ ok_links' # ok_links =>
                   pc = "organize" /\ ok_links' = ok_links \cup {CurrentLink}
            /\ downloaded_urls_history' # downloaded_urls_history =>
                   /\ pc = "organize"
                   /\ downloaded_urls_history' =
                          downloaded_urls_history \cup {CurrentLink}]_vars

\* the run has gone through the links of the first page, has requested the
\* second page and the third, and is organizing the second link of the third
C12_Witness ==
    /\ pc = "organize"
    /\ url_index = 3
    /\ link_index = 2
    /\ pages_tried = {1, 2, 3}
    /\ L1 \in fetched
    /\ CurrentLink = L2

\* C13: time.sleep is called once after every call of download_file, whether
\* download_file and organize_file returned a path or not, never for a
\* link skipped by line 312, and once after every target URL: when main() is
\* between two link attempts, or has stopped, the calls of time.sleep are as
\* many as the link attempts made and the target URLs left behind.
C13_OneDelayPerAttemptAndUrl ==
    (history_reads = 1 /\ pc \notin {"organize", "sleep_link"}) =>
        sleeps = attempts + (url_index - 1)

\* C20: a run issues a network request, for a page or for a file, only when
\* time.sleep was called since its previous request.
C20_DelayBetweenRequests ==
    [][requests' > requests => rested]_vars

\* the links of the pages that have a file name: those a run without
\* failures downloads and organizes
NamedLinks == {L1, L2}

\* C14: a run that ends without having met a failure, whatever runs were
\* terminated before it, leaves every link that has a file name in the
\* history file, the whole body of each such link in a file below a
\* destination folder, and no file in the base folder itself.
C14_HealsAfterInterruption ==
    (pc = "done" /\ faults = 0) =>
        /\ history_file.kind = "list"
        /\ NamedLinks \subseteq Range(history_file.items)
        /\ \A l \in NamedLinks :
               \E p \in DOMAIN files : Len(p) > 1 /\ files[p] = Body(l, TRUE)
        /\ \A p \in DOMAIN files : Len(p) > 1

\* C15: load_download_history returns the empty set for a history file that
\* is absent, holds no valid JSON or cannot be read, and does not raise: once
\* the base folder exists the start of a run always reaches the first page,
\* with an empty history and a count of 0 unless the file holds a list; the
\* run then skips no link but those it has recorded itself.
C15_CorruptHistoryLoadsEmpty ==
    /\ [][(pc = "start" /\ <<>> \in dirs) => pc' = "page"]_vars
    /\ [][(pc = "start" /\ pc' = "page") =>
            IF history_file.kind = "list"
            THEN downloaded_urls_history' = Range(history_file.items)
            ELSE /\ downloaded_urls_history' = {}
                 /\ initial_downloaded_count' = 0]_vars
    /\ [](pc \in Running /\ run = 1 /\ history_file.kind # "list" =>
            /\ loaded_history = {}
            /\ skipped \subseteq ok_links)

\* the first run started on a file cut short after the URL of a link, and
\* has downloaded and organized that link
C15_Witness ==
    /\ run = 1
    /\ pc \in Running
    /\ history_file = [kind |-> "corrupt", items |-> <<L1>>]
    /\ L1 \in fetched
    /\ L1 \in ok_links

\* the configuration file cannot be loaded, or gives no target_urls, or
\* gives no allowed_extensions
Unusable ==
    IF config.loaded
    THEN config.target_urls = <<>> \/ config.allowed_extensions = <<>>
    ELSE TRUE

\* C16: with a configuration that cannot be loaded, or without target_urls,
\* or without allowed_extensions, every run returns at once: no request is
\* ever issued, the history file is neither read nor written, and no
\* directory or file is created.
C16_AbortsBeforeAnyActivity ==
    /\ [](Unusable =>
            /\ pc \in {"start", "exit"}
            /\ requests = 0
            /\ history_reads = 0
            /\ history_writes = 0
            /\ dirs = {}
            /\ files = EmptyFiles)
    /\ [][Unusable => (history_file' = history_file /\ faults' = faults)]_vars

\* a configuration with target_urls and without allowed_extensions: the
\* second run has returned as the first did
C16_Witness ==
    /\ config.loaded
    /\ config.target_urls # <<>>
    /\ config.allowed_extensions = <<>>
    /\ run > 1
    /\ pc = "exit"

\* the folder of each staged name by its type: the extension in lower case
\* with a capital first letter, Otros for a name without extension
TypeFolderOf(file_name) ==
    CASE file_name = <<"x", ".", "p", "d", "f">> -> <<"P", "d", "f">>
      [] file_name = <<"X", ".", "P", "D", "F">> -> <<"P", "d", "f">>
      [] file_name = <<"d", ".", "c", "s", "v">> -> <<"C", "s", "v">>
      [] file_name = <<"n">> -> <<"O", "t", "r", "o", "s">>
      [] file_name = <<"x", ".">> -> <<"O", "t", "r", "o", "s">>

\* C17: when organize_file returns a path, the file is below the base folder
\* in <today> under rule date, in <Type> under rule type and in
\* <Type>/<today> under rule type_then_date, where <Type> is the extension
\* lower-cased then capitalized, or Otros without extension; it holds the
\* staged body, under the staged name when that name is free in the folder.
C17_DestinationPerRule ==
    [][(pc = "organize" /\ organized_path' # NoPath) =>
          LET file_name == downloaded_file_path[1]
              dir  == SubSeq(organized_path', 1, Len(organized_path') - 1)
              name == organized_path'[Len(organized_path')]
          IN  /\ ORGANIZATION_RULE = "date" => dir = <<today>>
              /\ ORGANIZATION_RULE = "type" => dir = <<TypeFolderOf(file_name)>>
              /\ ORGANIZATION_RULE = "type_then_date" =>
                     dir = <<TypeFolderOf(file_name), today>>
              /\ ORGANIZATION_RULE \in {"date", "type", "type_then_date"}
              /\ dir \in dirs'
              /\ files'[organized_path'] = files[downloaded_file_path]
              /\ Append(dir, file_name) \notin DOMAIN files => name = file_name
              /\ Append(dir, file_name) \in DOMAIN files => name # file_name]_vars

\* d.csv staged on 2024-05-01 under type_then_date is at
\* Csv/2024-05-01/d.csv
C17_Witness ==
    /\ pc = "sleep_link"
    /\ ORGANIZATION_RULE = "type_then_date"
    /\ organized_path = << <<"C", "s", "v">>, <<"2024-05-01">>,
                           <<"d", ".", "c", "s", "v">> >>
    /\ organized_path \in DOMAIN files

\* C18: whenever organize_file returns a path and the link is recorded, the
\* file at that path holds the body that was streamed from that link.
C18_RecordedFileIsFromItsLink ==
    [][(pc = "organize" /\ organized_path' # NoPath) =>
          /\ CurrentLink \in downloaded_urls_history'
          /\ files'[organized_path'].src = CurrentLink]_vars

\* C19: when download_file returns None, no file is at the staged path
\* of the link.
C19_FailedDownloadLeavesNoFile ==
    [][(pc = "download" /\ pc' = "sleep_link") =>
          <<Basename(UrlPath(CurrentLink))>> \notin DOMAIN files']_vars

====
